---- MODULE Spec2Model ----
(***************************************************************************)
(* Model of SECAPITool                                                     *)
(* (libs/community/langchain_community/tools/sec_api/tool.py).             *)
(*                                                                         *)
(* Strings that the code inspects character by character (the query) are   *)
(* sequences of one-character strings; strings that the code only          *)
(* concatenates (error messages) are TLA+ strings.  An Optional value is   *)
(* None == <<>> or Some(x) == <<x>>.  The external client CustomSECAPI is  *)
(* an oracle: each call either returns a mapping or raises with a message. *)
(***************************************************************************)
EXTENDS Integers, Sequences, FiniteSets, TLC

VARIABLES classDefault, adapter, clients, pc, op, calls, outcome

vars == <<classDefault, adapter, clients, pc, op, calls, outcome>>

-----------------------------------------------------------------------------
(* Bounds *)

MaxLen == 6

-----------------------------------------------------------------------------
(* Program constants *)

TickerMaxLen == 5

RoutedLimit == 5

DefaultLimit == 50

-----------------------------------------------------------------------------
(* Values *)

None == <<>>

Some(x) == <<x>>

Omitted == [given |-> FALSE]

Given(x) == [given |-> TRUE, v |-> x]

\* Python parameter binding: an omitted argument takes the declared default.
Bind(arg, dflt) == IF arg.given THEN arg.v ELSE dflt

\* Characters by case class, as str.isupper() sees them.
UpperChars == {"A", "É"}

LowerChars == {"b"}

UncasedChars == {"-"}

Alphabet == UpperChars \cup LowerChars \cup UncasedChars

AsciiUpperLetters == {"A"}

SeqsUpTo(S, n) == UNION {[1..k -> S] : k \in 0..n}

Queries == SeqsUpTo(Alphabet, MaxLen)

isupper_NoCasedRequired(s) == \A i \in 1..Len(s) : s[i] \in UpperChars \cup UncasedChars

\* str.isupper(): at least one cased character, and no lowercase character.
isupper(s) ==
    /\ \E i \in 1..Len(s) : s[i] \in UpperChars \cup LowerChars
    /\ \A i \in 1..Len(s) : s[i] \notin LowerChars

\* Truthiness of an Optional[str] in `api_key or self.api_key`.
Truthy(o) == o # None /\ o # Some("")

\* What the external client can answer.
ClientResults == {[total |-> 0], [total |-> 2, filings |-> "f"]}

ClientErrors == {"timeout", "401"}

Replies == [kind : {"ok"}, val : ClientResults] \cup [kind : {"raise"}, val : ClientErrors]

Returned_Reshaped(v) == [kind |-> "return", type |-> "dict", val |-> [v EXCEPT !.total = 0]]

\* return results
Returned(v) == [kind |-> "return", type |-> "dict", val |-> v]

Raised(t, m) == [kind |-> "raise", type |-> t, val |-> m]

Call(method, kwargs, reply) == [method |-> method, kwargs |-> kwargs, reply |-> reply]

NoOp == [name |-> "none"]

NoOutcome == [kind |-> "none"]

NoAdapter == [status |-> "none"]

\* A call is accepted on a constructed adapter that is not inside a call.
Ready == adapter.status = "ok" /\ pc = "idle"

-----------------------------------------------------------------------------
(* Construction: SECAPITool.__init__ *)

\* super().__init__(api_key=api_key): the field api_key: str is always given
\* the argument as input, so a class default is never consulted, and None is
\* rejected by validation of a str field.
FieldValid(api_key) == api_key # None

\* api_key_value = api_key or self.api_key, where self.api_key is the
\* validated input, i.e. the argument itself.
ApiKeyValue(api_key, self_api_key) == IF Truthy(api_key) THEN api_key ELSE self_api_key

BoundKey_DefaultFirst(api_key, default) == IF Truthy(default) THEN default ELSE api_key

\* The credential handed to CustomSECAPI(api_key=SecretStr(api_key_value)).
BoundKey(api_key, default) == ApiKeyValue(api_key, api_key)

ExplicitKeys == {None, Some(""), Some("k")}

ClassDefaults == {None, Some("d")}

Construct(api_key) ==
    /\ adapter.status = "none"
    /\ IF FieldValid(api_key)
         THEN /\ adapter' = [status |-> "ok", given |-> api_key,
                             api_key |-> api_key,
                             client_key |-> BoundKey(api_key, classDefault)]
              /\ clients' = clients + 1
         ELSE /\ adapter' = [status |-> "failed", given |-> api_key]
              /\ clients' = clients
    /\ UNCHANGED <<classDefault, pc, op, calls, outcome>>

-----------------------------------------------------------------------------
(* Routed entry point: SECAPITool._run *)

IsTicker_StrictLen(query) == isupper(query) /\ Len(query) < TickerMaxLen

\* if query.isupper() and len(query) <= 5
IsTicker(query) == isupper(query) /\ Len(query) <= TickerMaxLen

FilingsError_TextPrefix(e) == Raised("ToolException", "Error searching text: " \o e)

\* raise ToolException(f"Error searching filings: {str(e)}")
FilingsError(e) == Raised("ToolException", "Error searching filings: " \o e)

\* raise ToolException(f"Error searching text: {str(e)}")
TextError(e) == Raised("ToolException", "Error searching text: " \o e)

\* self.api_wrapper.get_filings(ticker=query, limit=5)
RunFilingsCall(query, reply) ==
    Call("get_filings", [ticker |-> query, limit |-> RoutedLimit], reply)

\* self.api_wrapper.full_text_search(search_query=query, limit=5)
RunTextCall(query, reply) ==
    Call("full_text_search", [search_query |-> query, limit |-> RoutedLimit], reply)

\* The except clause of the ticker branch swallows the error and control
\* falls through to the full-text search.
Run_FallThrough(query, reply) ==
    /\ Ready
    /\ pc' = "done"
    /\ op' = [name |-> "_run", query |-> query]
    /\ IF IsTicker(query) /\ reply.kind = "ok"
         THEN /\ calls' = <<RunFilingsCall(query, reply)>>
              /\ outcome' = Returned(reply.val)
         ELSE /\ calls' = IF IsTicker(query)
                            THEN <<RunFilingsCall(query, reply), RunTextCall(query, reply)>>
                            ELSE <<RunTextCall(query, reply)>>
              /\ outcome' = IF reply.kind = "ok"
                              THEN Returned(reply.val)
                              ELSE TextError(reply.val)
    /\ UNCHANGED <<classDefault, adapter, clients>>

Run(query, reply) ==
    /\ Ready
    /\ pc' = "done"
    /\ op' = [name |-> "_run", query |-> query]
    /\ IF IsTicker(query)
         THEN /\ calls' = <<RunFilingsCall(query, reply)>>
              /\ outcome' = IF reply.kind = "ok"
                              THEN Returned(reply.val)
                              ELSE FilingsError(reply.val)
         ELSE /\ calls' = <<RunTextCall(query, reply)>>
              /\ outcome' = IF reply.kind = "ok"
                              THEN Returned(reply.val)
                              ELSE TextError(reply.val)
    /\ UNCHANGED <<classDefault, adapter, clients>>

-----------------------------------------------------------------------------
(* Explicit operations: SECAPITool.full_text_search, SECAPITool.filing_search *)

Tickers == {<<"A", "A">>, <<"b">>}

FormTypeArgs == {Omitted, Given(None), Given(Some("10-K"))}

FormTypesArgs == {Omitted, Given(None), Given(Some(<<"10-K", "8-K">>))}

DateFromArgs == {Omitted, Given(Some("2020-01-01"))}

DateToArgs == {Omitted, Given(Some("2020-12-31"))}

LimitArgs == {Omitted, Given(5), Given(10)}

\* kwargs of self.api_wrapper.full_text_search(...)
FullTextSearchKwargs(query, form_types, date_from, date_to, limit) ==
    [search_query |-> query,
     form_types |-> Bind(form_types, None),
     date_from |-> Bind(date_from, None),
     date_to |-> Bind(date_to, None),
     limit |-> Bind(limit, DefaultLimit)]

FilingSearchKwargs_DatesSwapped(ticker, form_type, date_from, date_to, limit) ==
    [ticker |-> ticker,
     form_type |-> Bind(form_type, None),
     date_from |-> Bind(date_to, None),
     date_to |-> Bind(date_from, None),
     limit |-> Bind(limit, DefaultLimit)]

\* kwargs of self.api_wrapper.get_filings(...)
FilingSearchKwargs(ticker, form_type, date_from, date_to, limit) ==
    [ticker |-> ticker,
     form_type |-> Bind(form_type, None),
     date_from |-> Bind(date_from, None),
     date_to |-> Bind(date_to, None),
     limit |-> Bind(limit, DefaultLimit)]

\* raise ValueError(f"Error in full text search: {str(e)}")
FullTextSearchError(e) == Raised("ValueError", "Error in full text search: " \o e)

FilingSearchError_ToolException(e) == Raised("ToolException", "Error in filing search: " \o e)

\* raise ValueError(f"Error in filing search: {str(e)}")
FilingSearchError(e) == Raised("ValueError", "Error in filing search: " \o e)

full_text_search(query, form_types, date_from, date_to, limit, reply) ==
    /\ Ready
    /\ pc' = "done"
    /\ op' = [name |-> "full_text_search", query |-> query, form_types |-> form_types,
              date_from |-> date_from, date_to |-> date_to, limit |-> limit]
    /\ calls' = <<Call("full_text_search",
                       FullTextSearchKwargs(query, form_types, date_from, date_to, limit),
                       reply)>>
    /\ outcome' = IF reply.kind = "ok"
                    THEN Returned(reply.val)
                    ELSE FullTextSearchError(reply.val)
    /\ UNCHANGED <<classDefault, adapter, clients>>

filing_search(ticker, form_type, date_from, date_to, limit, reply) ==
    /\ Ready
    /\ pc' = "done"
    /\ op' = [name |-> "filing_search", ticker |-> ticker, form_type |-> form_type,
              date_from |-> date_from, date_to |-> date_to, limit |-> limit]
    /\ calls' = <<Call("get_filings",
                       FilingSearchKwargs(ticker, form_type, date_from, date_to, limit),
                       reply)>>
    /\ outcome' = IF reply.kind = "ok"
                    THEN Returned(reply.val)
                    ELSE FilingSearchError(reply.val)
    /\ UNCHANGED <<classDefault, adapter, clients>>

-----------------------------------------------------------------------------

Init ==
    /\ classDefault \in ClassDefaults
    /\ adapter = NoAdapter
    /\ clients = 0
    /\ pc = "idle"
    /\ op = NoOp
    /\ calls = <<>>
    /\ outcome = NoOutcome

\* The call returns to its caller: query, results and the raised error are
\* locals of the call and are gone afterwards.
Discard ==
    /\ pc = "done"
    /\ pc' = "idle"
    /\ op' = NoOp
    /\ calls' = <<>>
    /\ outcome' = NoOutcome
    /\ UNCHANGED <<classDefault, adapter, clients>>

Next ==
    \/ \E k \in ExplicitKeys : Construct(k)
    \/ Ready /\ \E q \in Queries, r \in Replies : Run(q, r)
    \/ Ready /\ \E q \in Tickers, ft \in FormTypesArgs, df \in DateFromArgs, dt \in DateToArgs,
                   l \in LimitArgs, r \in Replies : full_text_search(q, ft, df, dt, l, r)
    \/ Ready /\ \E t \in Tickers, ft \in FormTypeArgs, df \in DateFromArgs, dt \in DateToArgs,
                   l \in LimitArgs, r \in Replies : filing_search(t, ft, df, dt, l, r)
    \/ Discard

Spec == Init /\ [][Next]_vars

-----------------------------------------------------------------------------
(* Properties *)

AllAsciiUpper(q) == \A i \in 1..Len(q) : q[i] \in AsciiUpperLetters

LooksLikeTicker(q) == AllAsciiUpper(q) /\ 1 <= Len(q) /\ Len(q) <= TickerMaxLen

RunDone == pc = "done" /\ op.name = "_run"

NeverCalled(method) == \A i \in 1..Len(calls) : calls[i].method # method

OptOrNone(arg) == IF arg.given THEN arg.v ELSE None

\* C1: a query of 1 to 5 uppercase ASCII letters makes _run call
\* get_filings(ticker=query, limit=5) and never full_text_search.
C1_TickerRoutedToFilings ==
    (RunDone /\ LooksLikeTicker(op.query)) =>
        /\ \E i \in 1..Len(calls) :
              /\ calls[i].method = "get_filings"
              /\ calls[i].kwargs = [ticker |-> op.query, limit |-> 5]
        /\ NeverCalled("full_text_search")

C1_Witness ==
    /\ RunDone
    /\ op.query = <<"A", "A", "A", "A", "A">>
    /\ calls[1].method = "get_filings"

\* C2: every non-empty query that is not 1 to 5 uppercase ASCII letters makes
\* _run call full_text_search(search_query=query, limit=5) and never get_filings.
C2_OtherQueriesRoutedToText ==
    (RunDone /\ op.query # <<>> /\ ~LooksLikeTicker(op.query)) =>
        /\ \E i \in 1..Len(calls) :
              /\ calls[i].method = "full_text_search"
              /\ calls[i].kwargs = [search_query |-> op.query, limit |-> 5]
        /\ NeverCalled("get_filings")

\* C3: when the client call of _run raises with message m, _run raises
\* ToolException whose message is the prefix of the branch that failed
\* followed by m.
C3_RunErrorNamesBranch ==
    (RunDone /\ calls[Len(calls)].reply.kind = "raise") =>
        /\ outcome.kind = "raise"
        /\ outcome.type = "ToolException"
        /\ calls[Len(calls)].method = "get_filings" =>
              outcome.val = "Error searching filings: " \o calls[Len(calls)].reply.val
        /\ calls[Len(calls)].method = "full_text_search" =>
              outcome.val = "Error searching text: " \o calls[Len(calls)].reply.val

C3_Witness ==
    /\ RunDone
    /\ calls[1].method = "get_filings"
    /\ calls[1].reply = [kind |-> "raise", val |-> "401"]
    /\ outcome.val = "Error searching filings: 401"

\* C4: filing_search and full_text_search forward every parameter unchanged
\* to the client; an omitted optional is None and an omitted limit is 50.
C4_ExplicitOpsForwardParameters ==
    /\ (pc = "done" /\ op.name = "filing_search") =>
          /\ Len(calls) = 1
          /\ calls[1].method = "get_filings"
          /\ calls[1].kwargs = [ticker |-> op.ticker,
                                form_type |-> OptOrNone(op.form_type),
                                date_from |-> OptOrNone(op.date_from),
                                date_to |-> OptOrNone(op.date_to),
                                limit |-> IF op.limit.given THEN op.limit.v ELSE 50]
    /\ (pc = "done" /\ op.name = "full_text_search") =>
          /\ Len(calls) = 1
          /\ calls[1].method = "full_text_search"
          /\ calls[1].kwargs = [search_query |-> op.query,
                                form_types |-> OptOrNone(op.form_types),
                                date_from |-> OptOrNone(op.date_from),
                                date_to |-> OptOrNone(op.date_to),
                                limit |-> IF op.limit.given THEN op.limit.v ELSE 50]

C4_Witness ==
    /\ pc = "done"
    /\ op.name = "filing_search"
    /\ op.form_type = Omitted
    /\ op.date_from = Given(Some("2020-01-01"))
    /\ op.date_to = Omitted
    /\ op.limit = Omitted
    /\ calls[1].kwargs.limit = 50

\* C5: a client error with message m inside an explicit operation surfaces as
\* ValueError with the operation's prefix followed by m; ToolException is
\* raised only by _run.
C5_ExplicitOpsRaiseValueError ==
    /\ (pc = "done" /\ op.name = "filing_search" /\ calls[1].reply.kind = "raise") =>
          outcome = [kind |-> "raise", type |-> "ValueError",
                     val |-> "Error in filing search: " \o calls[1].reply.val]
    /\ (pc = "done" /\ op.name = "full_text_search" /\ calls[1].reply.kind = "raise") =>
          outcome = [kind |-> "raise", type |-> "ValueError",
                     val |-> "Error in full text search: " \o calls[1].reply.val]
    /\ (outcome.kind = "raise" /\ outcome.type = "ToolException") => op.name = "_run"

C5_Witness ==
    /\ pc = "done"
    /\ op.name = "filing_search"
    /\ calls[1].reply = [kind |-> "raise", val |-> "timeout"]
    /\ outcome.type = "ValueError"

\* C6: an explicit non-empty credential is the one the single client is
\* bound to, also when a different class default is configured.
C6_ExplicitCredentialWins ==
    (adapter.status # "none" /\ Truthy(adapter.given)) =>
        /\ adapter.status = "ok"
        /\ adapter.client_key = adapter.given
        /\ clients = 1

C6_Witness ==
    /\ adapter.status = "ok"
    /\ adapter.given = Some("k")
    /\ classDefault = Some("d")
    /\ adapter.client_key = Some("k")

\* C7: construction fails without creating a client exactly when neither an
\* explicit key nor a class default exists; with the argument omitted and a
\* class default configured it succeeds and binds the client to the default.
C7_FailsIffNoKeyResolvable ==
    adapter.status # "none" =>
        /\ (adapter.status = "failed" /\ clients = 0)
              <=> (adapter.given = None /\ classDefault = None)
        /\ (adapter.given = None /\ classDefault # None) =>
              /\ adapter.status = "ok"
              /\ adapter.client_key = classDefault

\* C8: a successful client call's mapping is returned exactly as the client
\* returned it, by _run and by both explicit operations, and a call leaves
\* the adapter (credential, client handle, number of clients) unchanged.
C8_ResultUnchangedAndNoStateChange ==
    /\ [](pc = "done" /\ calls[Len(calls)].reply.kind = "ok" =>
             /\ outcome.kind = "return"
             /\ outcome.val = calls[Len(calls)].reply.val)
    /\ [][pc' = "done" => (adapter' = adapter /\ clients' = clients)]_vars

C8_Witness ==
    /\ RunDone
    /\ calls[1].method = "get_filings"
    /\ outcome.kind = "return"
    /\ outcome.val = [total |-> 2, filings |-> "f"]

\* C9: the empty query is not a ticker: _run("") calls
\* full_text_search(search_query="", limit=5) and never get_filings.
C9_EmptyQueryRoutedToText ==
    (RunDone /\ op.query = <<>>) =>
        /\ \E i \in 1..Len(calls) :
              /\ calls[i].method = "full_text_search"
              /\ calls[i].kwargs = [search_query |-> <<>>, limit |-> 5]
        /\ NeverCalled("get_filings")

C9_Witness ==
    /\ RunDone
    /\ op.query = <<>>
    /\ calls[1].method = "full_text_search"

\* C10: every invocation of _run makes exactly one client call, also when
\* get_filings fails: no fall-through to full_text_search and no retry.
C10_RunCallsClientOnce == RunDone => Len(calls) = 1

C10_Witness ==
    /\ RunDone
    /\ Len(calls) = 1
    /\ calls[1].method = "get_filings"
    /\ calls[1].reply.kind = "raise"
    /\ outcome.kind = "raise"

====
